---- MODULE Spec2Model ----
(***************************************************************************)
(* regexp_extract: the scalar function of                                  *)
(* datafusion/physical-expr/src/regexp_extract.rs.                         *)
(*                                                                         *)
(* Strings are sequences of one-character strings, so that a pattern is    *)
(* parsed and an input is matched character by character.  Option<T> is a  *)
(* sequence of length 0 (None) or 1 (Some(x)).                             *)
(***************************************************************************)
EXTENDS Integers, Sequences, FiniteSets, TLC

VARIABLES
    pc,        \* "ready" before the call of regexp_extract_fn, "done" after it
    args,      \* the argument slice of the call
    out,       \* Result<ScalarValue> of the call (NoOutcome before it)
    wpc,       \* per worker: position inside regexp_extract_fn
    wargs,     \* per worker: the argument slice of its call
    wre,       \* per worker: the local `re` (Option of the compiled regex)
    wout,      \* per worker: the Result it returns (NoOutcome before)
    returned   \* every <<args, outcome>> pair a worker's call has returned

vars == <<pc, args, out, wpc, wargs, wre, wout, returned>>

----------------------------------------------------------------------------
(* Bounds of the model. *)

MaxArgs == 4          \* argument slices have 0..MaxArgs elements
MaxIdx == 5           \* small indexes are -MaxIdx .. MaxIdx
MaxInputLen == 2      \* every input over Alphabet up to this length
NumWorkers == 2       \* concurrent callers

----------------------------------------------------------------------------
(* Option, ScalarValue, Result. *)

None == <<>>
Some(x) == <<x>>

Utf8(v) == [type |-> "Utf8", val |-> v]
Int32(v) == [type |-> "Int32", val |-> v]

is_null(sv) == sv.val = None

Ok(v) == [tag |-> "Ok", value |-> v]
Err(kind, msg) == [tag |-> "Err", kind |-> kind, msg |-> msg]
NoOutcome == [tag |-> "NotCalled"]

\* "".to_string()
EmptyStr == <<>>

----------------------------------------------------------------------------
(* `idx as usize` on a 64-bit target: the i32 is sign-extended to 64 bits. *)
(* The 64-bit value is kept as UsizeLimbs limbs, base LimbBase, least      *)
(* significant first.                                                      *)

LimbBase == 65536
UsizeLimbs == 4

\* idx.unsigned_abs() as usize, in place of the cast
AsUsizeAbs(i) ==
    LET a == IF i < 0 THEN 0 - (i + 1) ELSE i
        low == (a % LimbBase) + (IF i < 0 THEN 1 ELSE 0)
    IN  [k \in 1..UsizeLimbs |->
            IF k = 1 THEN low % LimbBase
            ELSE IF k = 2 THEN ((a \div LimbBase) + (low \div LimbBase)) % LimbBase
            ELSE 0]

\* idx as usize
AsUsize(i) ==
    [k \in 1..UsizeLimbs |->
        IF k = 1 THEN i % LimbBase
        ELSE IF k = 2 THEN (i \div LimbBase) % LimbBase
        ELSE IF i < 0 THEN LimbBase - 1 ELSE 0]

\* u < n for a usize u and a small natural n (n < LimbBase)
UsizeLess(u, n) == (\A k \in 2..UsizeLimbs : u[k] = 0) /\ u[1] < n

----------------------------------------------------------------------------
(* Regex::new: the pattern parser.  Group numbers are given in the order   *)
(* the groups open; a named group (?P<name>..) takes a number like an      *)
(* unnamed one, a non-capturing group (?:..) takes none.                   *)

RepOps == {"*", "+", "?"}
MetaChars == {"(", ")", "|", "*", "+", "?", "\\", "."}

At(p, i) == IF i >= 1 /\ i <= Len(p) THEN p[i] ELSE ""

PErr(d) == [ok |-> FALSE, err |-> d]
POk(n, i, g) == [ok |-> TRUE, node |-> n, pos |-> i, g |-> g]

Empty == [op |-> "empty"]
Lit(c) == [op |-> "lit", c |-> c]
Digit == [op |-> "digit"]
AnyChar == [op |-> "any"]
Cat(l, r) == IF l = Empty THEN r ELSE IF r = Empty THEN l
             ELSE [op |-> "cat", l |-> l, r |-> r]
Alt(l, r) == [op |-> "alt", l |-> l, r |-> r]
Rep(o, greedy, sub) == [op |-> "rep", kind |-> o, greedy |-> greedy, sub |-> sub]
Cap(k, sub) == [op |-> "cap", k |-> k, sub |-> sub]

RECURSIVE ParseAlt(_, _, _)
RECURSIVE ParseConcat(_, _, _, _)
RECURSIVE ParsePostfix(_, _)
RECURSIVE NameEnd(_, _)

\* the position of the ">" closing a group name that starts at i (0: none)
NameEnd(p, i) ==
    IF i > Len(p) THEN 0
    ELSE IF p[i] = ">" THEN i
    ELSE NameEnd(p, i + 1)

\* the ")" of a group that opened as number g (0: a non-capturing group)
CloseGroup(p, g, body) ==
    IF ~body.ok THEN body
    ELSE IF At(p, body.pos) # ")" THEN PErr("unclosed group")
    ELSE POk(IF g = 0 THEN body.node ELSE Cap(g, body.node), body.pos + 1, body.g)

\* (?P<name> .. ) whose name ends at close
NamedGroup(p, i, g, close) ==
    IF close = 0 THEN PErr("unclosed capture group name")
    ELSE IF close = i + 4 THEN PErr("empty capture group name")
    ELSE CloseGroup(p, g, ParseAlt(p, close + 1, g + 1))

\* a group whose "(" is at i
ParseGroup(p, i, g) ==
    IF At(p, i + 1) # "?" THEN CloseGroup(p, g, ParseAlt(p, i + 1, g + 1))
    ELSE IF At(p, i + 2) = ":" THEN CloseGroup(p, 0, ParseAlt(p, i + 3, g))
    ELSE IF At(p, i + 2) = "P" /\ At(p, i + 3) = "<"
    THEN NamedGroup(p, i, g, NameEnd(p, i + 4))
    ELSE PErr(IF i + 1 = Len(p) THEN "unclosed group" ELSE "unrecognized flag")

\* what follows a backslash at i
ParseEscape(p, i, g) ==
    IF i = Len(p) THEN PErr("incomplete escape sequence")
    ELSE IF p[i + 1] = "d" THEN POk(Digit, i + 2, g)
    ELSE IF p[i + 1] \in MetaChars THEN POk(Lit(p[i + 1]), i + 2, g)
    ELSE PErr("unrecognized escape sequence")

ParseAtom(p, i, g) ==
    IF p[i] = "(" THEN ParseGroup(p, i, g)
    ELSE IF p[i] \in RepOps THEN PErr("repetition operator missing expression")
    ELSE IF p[i] = "." THEN POk(AnyChar, i + 1, g)
    ELSE IF p[i] = "\\" THEN ParseEscape(p, i, g)
    ELSE POk(Lit(p[i]), i + 1, g)

\* the repetition operators that follow an atom; op? is the lazy form of op
ParsePostfix(p, r) ==
    IF ~r.ok THEN r
    ELSE IF At(p, r.pos) \notin RepOps THEN r
    ELSE IF At(p, r.pos + 1) = "?"
    THEN ParsePostfix(p, POk(Rep(p[r.pos], FALSE, r.node), r.pos + 2, r.g))
    ELSE ParsePostfix(p, POk(Rep(p[r.pos], TRUE, r.node), r.pos + 1, r.g))

\* the items of a concatenation after acc, r being the item just parsed
ConcatNext(p, acc, r) ==
    IF ~r.ok THEN r ELSE ParseConcat(p, r.pos, r.g, Cat(acc, r.node))

ParseConcat(p, i, g, acc) ==
    IF i > Len(p) \/ p[i] \in {"|", ")"} THEN POk(acc, i, g)
    ELSE ConcatNext(p, acc, ParsePostfix(p, ParseAtom(p, i, g)))

AltJoin(l, r) ==
    IF ~r.ok THEN r ELSE POk(Alt(l.node, r.node), r.pos, r.g)

\* the alternatives after the first one, l
AltRest(p, l) ==
    IF ~l.ok THEN l
    ELSE IF At(p, l.pos) = "|" THEN AltJoin(l, ParseAlt(p, l.pos + 1, l.g))
    ELSE l

ParseAlt(p, i, g) == AltRest(p, ParseConcat(p, i, g, Empty))

\* the whole pattern must have been read
ParseEnd(p, r) ==
    IF ~r.ok THEN [ok |-> FALSE, err |-> r.err]
    ELSE IF r.pos <= Len(p) THEN [ok |-> FALSE, err |-> "unopened group"]
    ELSE [ok |-> TRUE, node |-> r.node, group_len |-> r.g]

\* Regex::new(pattern): Ok(the program and its group count, group 0 included)
\* or Err(diagnostic)
RegexNew(p) == ParseEnd(p, ParseAlt(p, 1, 1))

----------------------------------------------------------------------------
(* Regex::captures: the leftmost match, and among the matches that start   *)
(* there the one the pattern prefers (leftmost-first: an earlier           *)
(* alternative before a later one, a greedy repetition as long as it can). *)
(* MatchAt gives every way the node matches at position i, the preferred   *)
(* way first; a slot holds Some(<<start, end>>) once its group has matched.*)

Digits == {"0", "1", "2", "3", "4", "5", "6", "7", "8", "9"}

Here(i, slots) == <<[pos |-> i, slots |-> slots]>>

Progress(outs, i) == SelectSeq(outs, LAMBDA o : o.pos > i)

SetSlot(outs, k, i) ==
    [j \in 1..Len(outs) |->
        [pos |-> outs[j].pos,
         slots |-> [outs[j].slots EXCEPT ![k] = Some(<<i, outs[j].pos>>)]]]

RECURSIVE MatchAt(_, _, _, _)
RECURSIVE ThenAll(_, _, _)

\* every outcome of outs continued by node n, in order
ThenAll(outs, n, s) ==
    IF outs = <<>> THEN <<>>
    ELSE MatchAt(n, s, Head(outs).pos, Head(outs).slots)
            \o ThenAll(Tail(outs), n, s)

MatchAt(n, s, i, slots) ==
    CASE n.op = "empty" -> Here(i, slots)
      [] n.op = "lit" -> IF At(s, i) = n.c THEN Here(i + 1, slots) ELSE <<>>
      [] n.op = "digit" -> IF At(s, i) \in Digits THEN Here(i + 1, slots) ELSE <<>>
      [] n.op = "any" -> IF i <= Len(s) /\ s[i] # "\n" THEN Here(i + 1, slots)
                         ELSE <<>>
      [] n.op = "cat" -> ThenAll(MatchAt(n.l, s, i, slots), n.r, s)
      [] n.op = "alt" -> MatchAt(n.l, s, i, slots) \o MatchAt(n.r, s, i, slots)
      [] n.op = "cap" -> SetSlot(MatchAt(n.sub, s, i, slots), n.k, i)
      [] n.op = "rep" ->
            LET once == MatchAt(n.sub, s, i, slots)
                more == IF n.kind = "?" THEN once
                        ELSE IF n.kind = "*" THEN ThenAll(Progress(once, i), n, s)
                        ELSE ThenAll(once, Rep("*", n.greedy, n.sub), s)
                skip == IF n.kind = "+" THEN <<>> ELSE Here(i, slots)
            IN  IF n.greedy THEN more \o skip ELSE skip \o more

RECURSIVE FirstMatch(_, _, _)

FirstMatch(re, s, i) ==
    IF i > Len(s) + 1 THEN None
    ELSE LET outs == MatchAt(re.node, s, i, [k \in 0..(re.group_len - 1) |-> None])
         IN  IF outs # <<>>
             THEN Some([haystack |-> s, group_len |-> re.group_len,
                        slots |-> [Head(outs).slots EXCEPT
                                      ![0] = Some(<<i, Head(outs).pos>>)]])
             ELSE FirstMatch(re, s, i + 1)

\* re.captures(input): Option<Captures>
captures(re, s) == FirstMatch(re, s, 1)

\* caps.get(i): Option<Match>; None when i names no group of the pattern or
\* the group did not take part in the match
CapturesGet(caps, u) ==
    IF ~UsizeLess(u, caps.group_len) THEN None
    ELSE IF caps.slots[u[1]] = None THEN None
    ELSE Some([haystack |-> caps.haystack,
               start |-> caps.slots[u[1]][1][1],
               end |-> caps.slots[u[1]][1][2]])

\* m.as_str()
as_str(m) == SubSeq(m.haystack, m.start, m.end - 1)

----------------------------------------------------------------------------
(* regexp_extract_fn *)

ArityMsg == "regexp_extract expects exactly 3 arguments"
PatternMsg == "Invalid regex pattern: "

\* a slice that has not 3 elements answered with a null
ArityErrorAsNull == Ok(Utf8(None))

\* Err(DataFusionError::Internal(..)) of a slice that has not 3 elements
ArityError == Err("Internal", <<ArityMsg>>)

\* input.is_null() || pattern.is_null() || idx.is_null()
AnyNull(a) == is_null(a[1]) \/ is_null(a[2]) \/ is_null(a[3])

\* the message without {e}
FormatNoDiagnostic(e) == <<PatternMsg>>

\* format!("Invalid regex pattern: {e}"): the prefix, then the diagnostic
FormatPatternError(e) == <<PatternMsg, e>>

\* a compile error turned into an empty result
CompileErrorSwallowed(e) == Ok(Utf8(Some(EmptyStr)))

\* the map_err(..)? of Regex::new
CompileError(e) == Err("Execution", FormatPatternError(e))

\* no match answered with a null
NoMatchNull == Ok(Utf8(None))

\* the arm of a pattern that matches nowhere
NoMatchValue == Ok(Utf8(Some(EmptyStr)))

\* a missing group answered with a null
MissingGroupNull == Ok(Utf8(None))

\* the arm of caps.get(..) = None
MissingGroupValue == Ok(Utf8(Some(EmptyStr)))

\* caps.get(idx + 1): groups counted from 1
GroupValueOneBased(c, i) ==
    LET m == CapturesGet(c, AsUsize(IF i = 2147483647 THEN i ELSE i + 1))
    IN  IF m = None THEN MissingGroupValue
        ELSE Ok(Utf8(Some(as_str(m[1]))))

\* a group that took no part answered with the whole match
GroupValueFallback(c, i) ==
    LET m == CapturesGet(c, AsUsize(i))
    IN  IF m = None
        THEN IF UsizeLess(AsUsize(i), c.group_len)
             THEN Ok(Utf8(Some(as_str(CapturesGet(c, AsUsize(0))[1]))))
             ELSE MissingGroupValue
        ELSE Ok(Utf8(Some(as_str(m[1]))))

\* match caps.get(idx as usize) { Some(m) => .., None => .. }
GroupValue(c, i) ==
    LET m == CapturesGet(c, AsUsize(i))
    IN  IF m = None THEN MissingGroupValue
        ELSE Ok(Utf8(Some(as_str(m[1]))))

\* the function with the pattern compiled before the nulls are looked at
regexp_extract_fn_compile_first(a) ==
    IF Len(a) # 3 THEN ArityError
    ELSE IF ~is_null(a[2]) /\ ~RegexNew(a[2].val[1]).ok
    THEN CompileError(RegexNew(a[2].val[1]).err)
    ELSE IF AnyNull(a) THEN Ok(Utf8(None))
    ELSE LET c == captures(RegexNew(a[2].val[1]), a[1].val[1])
         IN  IF c = None THEN NoMatchValue ELSE GroupValue(c[1], a[3].val[1])

regexp_extract_fn(a) ==
    IF Len(a) # 3 THEN ArityError
    ELSE LET input == a[1]
             pattern == a[2]
             idx == a[3]
         IN  IF AnyNull(a) THEN Ok(Utf8(None))
             ELSE LET input_str == input.val[1]
                      pattern_str == pattern.val[1]
                      i == idx.val[1]
                      re == RegexNew(pattern_str)
                  IN  IF ~re.ok THEN CompileError(re.err)
                      ELSE LET c == captures(re, input_str)
                           IN  IF c = None THEN NoMatchValue
                               ELSE GroupValue(c[1], i)

----------------------------------------------------------------------------
(* The calls the model makes. *)

Alphabet == {"a", "b", "1"}

RECURSIVE StringsUpTo(_)
StringsUpTo(n) ==
    IF n = 0 THEN {<<>>}
    ELSE LET shorter == StringsUpTo(n - 1)
         IN  shorter \cup {Append(t, c) : t \in shorter, c \in Alphabet}

S_abc123 == <<"a", "b", "c", "1", "2", "3">>
S_abc == <<"a", "b", "c">>
S_xyz789 == <<"x", "y", "z", "7", "8", "9">>

Inputs == {S_abc123, S_abc, S_xyz789} \cup StringsUpTo(MaxInputLen)

P_digits == <<"(", "\\", "d", "+", ")">>
P_named == <<"(", "?", "P", "<", "n", "u", "m", ">", "\\", "d", "+", ")">>
P_abc == <<"(", "a", ")", "(", "b", ")", "(", "c", ")">>
P_alt == <<"(", "a", ")", "|", "(", "b", ")">>
P_opt == <<"(", "a", ")", "?", "(", "b", ")">>
P_noncap == <<"(", "?", ":", "a", ")", "(", "b", ")">>
P_mixed == <<"(", "?", "P", "<", "x", ">", "a", ")", "(", "b", ")">>
P_nested == <<"(", "(", "a", ")", "b", ")">>
P_star == <<"a", "*">>
P_lazy == <<"(", "a", "+", "?", ")">>
P_first == <<"(", "a", "|", "a", "b", ")">>
P_empty == <<>>
P_lit == <<"1">>
P_open == <<"(">>
P_close == <<")">>
P_rep == <<"+", "a">>
P_unclosed == <<"(", "a">>
P_escape == <<"a", "\\">>
P_noname == <<"(", "?", "P", "<", ">", "a", ")">>

ValidPatterns ==
    {P_digits, P_named, P_abc, P_alt, P_opt, P_noncap, P_mixed, P_nested,
     P_star, P_lazy, P_first, P_empty, P_lit}
InvalidPatterns == {P_open, P_close, P_rep, P_unclosed, P_escape, P_noname}
Patterns == ValidPatterns \cup InvalidPatterns

I32Max == 2147483647
I32Min == (0 - I32Max) - 1
Indexes == ((0 - MaxIdx)..MaxIdx) \cup {I32Min, I32Max, 0 - LimbBase, LimbBase}

\* the well-typed triples of Signature::exact(Utf8, Utf8, Int32)
Triples ==
    {<<Utf8(i), Utf8(p), Int32(k)>> :
        i \in {None} \cup {Some(s) : s \in Inputs},
        p \in {None} \cup {Some(s) : s \in Patterns},
        k \in {None} \cup {Some(n) : n \in Indexes}}

\* slices of another length: any values
ArgPool == {Utf8(None), Utf8(Some(S_abc123)), Utf8(Some(P_open)), Int32(Some(0))}

RECURSIVE Slices(_)
Slices(n) ==
    IF n = 0 THEN {<<>>}
    ELSE {Append(t, v) : t \in Slices(n - 1), v \in ArgPool}

WrongArity == UNION {Slices(n) : n \in (0..MaxArgs) \ {3}}

ArgLists == Triples \cup WrongArity

----------------------------------------------------------------------------
(* One call. *)

Init ==
    /\ pc = "ready"
    /\ args \in ArgLists
    /\ out = NoOutcome
    /\ wpc = <<>> /\ wargs = <<>> /\ wre = <<>> /\ wout = <<>>
    /\ returned = {}

Invoke ==
    /\ pc = "ready"
    /\ out' = regexp_extract_fn(args)
    /\ pc' = "done"
    /\ UNCHANGED <<args, wpc, wargs, wre, wout, returned>>

Next == Invoke

Spec == Init /\ [][Next]_vars

----------------------------------------------------------------------------
(* Concurrent callers.  Each worker runs regexp_extract_fn on its own      *)
(* argument slice, one statement at a time; `re` and the result are locals *)
(* of the call.  `returned` records what every finished call returned.     *)

Workers == 1..NumWorkers

T_basic == <<Utf8(Some(S_abc123)), Utf8(Some(P_digits)), Int32(Some(0))>>
T_invalid == <<Utf8(Some(S_abc123)), Utf8(Some(P_open)), Int32(Some(0))>>
T_null == <<Utf8(None), Utf8(Some(P_open)), Int32(Some(0))>>
T_alt == <<Utf8(Some(<<"b">>)), Utf8(Some(P_alt)), Int32(Some(2))>>
T_short == <<Utf8(Some(S_abc123)), Utf8(Some(P_digits))>>

ConcArgs == {T_basic, T_invalid, T_null, T_alt, T_short}

InitConc ==
    /\ pc = "off" /\ args = <<>> /\ out = NoOutcome
    /\ wpc = [w \in Workers |-> "idle"]
    /\ wargs = [w \in Workers |-> <<>>]
    /\ wre = [w \in Workers |-> None]
    /\ wout = [w \in Workers |-> NoOutcome]
    /\ returned = {}

Finish(w, r) ==
    /\ wout' = [wout EXCEPT ![w] = r]
    /\ wpc' = [wpc EXCEPT ![w] = "return"]

Call(w) ==
    /\ wpc[w] = "idle"
    /\ \E a \in ConcArgs : wargs' = [wargs EXCEPT ![w] = a]
    /\ wpc' = [wpc EXCEPT ![w] = "arity"]
    /\ UNCHANGED <<pc, args, out, wre, wout, returned>>

CheckArity(w) ==
    /\ wpc[w] = "arity"
    /\ IF Len(wargs[w]) # 3 THEN Finish(w, ArityError)
       ELSE wpc' = [wpc EXCEPT ![w] = "nulls"] /\ UNCHANGED wout
    /\ UNCHANGED <<pc, args, out, wargs, wre, returned>>

CheckNulls(w) ==
    /\ wpc[w] = "nulls"
    /\ IF AnyNull(wargs[w]) THEN Finish(w, Ok(Utf8(None)))
       ELSE wpc' = [wpc EXCEPT ![w] = "compile"] /\ UNCHANGED wout
    /\ UNCHANGED <<pc, args, out, wargs, wre, returned>>

\* a compiled regex kept where every caller finds it, whatever its pattern
CompileShared(w) ==
    /\ wpc[w] = "compile"
    /\ LET have == {v \in Workers : wre[v] # None}
           re == IF have # {} THEN wre[CHOOSE v \in have : TRUE][1]
                 ELSE RegexNew(wargs[w][2].val[1])
       IN  IF ~re.ok THEN Finish(w, CompileError(re.err)) /\ UNCHANGED wre
           ELSE /\ wre' = [wre EXCEPT ![w] = Some(re)]
                /\ wpc' = [wpc EXCEPT ![w] = "match"]
                /\ UNCHANGED wout
    /\ UNCHANGED <<pc, args, out, wargs, returned>>

\* let re = Regex::new(pattern_str).map_err(..)?
Compile(w) ==
    /\ wpc[w] = "compile"
    /\ LET re == RegexNew(wargs[w][2].val[1])
       IN  IF ~re.ok THEN Finish(w, CompileError(re.err)) /\ UNCHANGED wre
           ELSE /\ wre' = [wre EXCEPT ![w] = Some(re)]
                /\ wpc' = [wpc EXCEPT ![w] = "match"]
                /\ UNCHANGED wout
    /\ UNCHANGED <<pc, args, out, wargs, returned>>

Match(w) ==
    /\ wpc[w] = "match"
    /\ LET c == captures(wre[w][1], wargs[w][1].val[1])
       IN  IF c = None THEN Finish(w, NoMatchValue)
           ELSE Finish(w, GroupValue(c[1], wargs[w][3].val[1]))
    /\ UNCHANGED <<pc, args, out, wargs, wre, returned>>

\* the call returns: its locals are dropped
Return(w) ==
    /\ wpc[w] = "return"
    /\ returned' = returned \cup {<<wargs[w], wout[w]>>}
    /\ wpc' = [wpc EXCEPT ![w] = "idle"]
    /\ wargs' = [wargs EXCEPT ![w] = <<>>]
    /\ wre' = [wre EXCEPT ![w] = None]
    /\ wout' = [wout EXCEPT ![w] = NoOutcome]
    /\ UNCHANGED <<pc, args, out>>

NextConc ==
    \E w \in Workers :
        \/ Call(w)
        \/ CheckArity(w)
        \/ CheckNulls(w)
        \/ Compile(w)
        \/ Match(w)
        \/ Return(w)

SpecConc == InitConc /\ [][NextConc]_vars

----------------------------------------------------------------------------
(* The vocabulary of the properties: the call of Spec, read from its       *)
(* arguments.                                                              *)

Called == pc = "done"
IsTriple == Len(args) = 3
HasNull == IsTriple /\ \E k \in 1..3 : args[k].val = None
AllPresent == IsTriple /\ \A k \in 1..3 : args[k].val # None
InputStr == args[1].val[1]
PatternStr == args[2].val[1]
Index == args[3].val[1]
Compiled == RegexNew(PatternStr)
Compiles == AllPresent /\ Compiled.ok
Found == captures(Compiled, InputStr)
Matches == Compiles /\ Found # None
GroupCount == Compiled.group_len - 1
Slot(k) == Found[1].slots[k]
Participates(k) == Slot(k) # None
SlotText(k) == SubSeq(InputStr, Slot(k)[1][1], Slot(k)[1][2] - 1)
StrOk(t) == Ok(Utf8(Some(t)))
NullOk == Ok(Utf8(None))
NoSlots == [k \in 0..GroupCount |-> None]

\* C1: a call with three arguments of which any is null returns Ok(null),
\* whatever the other two are; a pattern that does not compile raises no
\* error then, the nulls being looked at before the pattern is compiled.
C1_NullPropagates ==
    (Called /\ HasNull) => out = NullOk

C1_Witness ==
    /\ Called /\ IsTriple
    /\ args[3].val = None
    /\ args[1].val # None
    /\ args[2].val = Some(P_open)
    /\ ~RegexNew(P_open).ok
    /\ out = NullOk

\* C2: three non-null arguments and a pattern that does not compile give an
\* error of the Execution kind whose message is "Invalid regex pattern: "
\* followed by the engine's diagnostic, for every input and every index.
C2_InvalidPatternError ==
    (Called /\ AllPresent /\ ~Compiled.ok) =>
        /\ out.tag = "Err"
        /\ out.kind = "Execution"
        /\ Len(out.msg) = 2
        /\ out.msg[1] = "Invalid regex pattern: "
        /\ out.msg[2] = Compiled.err

C2_Witness ==
    /\ Called /\ AllPresent
    /\ PatternStr = P_open
    /\ InputStr = <<>>
    /\ Index = I32Max
    /\ out = Err("Execution", <<"Invalid regex pattern: ", "unclosed group">>)

\* C3: three non-null arguments, a pattern that matches and an index k in
\* 0..(number of groups) whose group took part in the match give exactly the
\* text of group k of the leftmost match: k = 0 is the whole match, k >= 1
\* counts the groups by their opening parenthesis, a named group like an
\* unnamed one.
C3_GroupText ==
    (Called /\ Matches /\ Index \in 0..GroupCount /\ Participates(Index)) =>
        /\ out = StrOk(SlotText(Index))
        /\ \A j \in 1..(Slot(0)[1][1] - 1) :
               MatchAt(Compiled.node, InputStr, j, NoSlots) = <<>>
        /\ (args = T_basic => out = StrOk(<<"1", "2", "3">>))
        /\ (InputStr = S_abc123 /\ PatternStr = P_named /\ Index = 0
               => out = StrOk(<<"1", "2", "3">>))
        /\ (InputStr = S_abc123 /\ PatternStr = P_abc /\ Index = 2
               => out = StrOk(<<"b">>))
        /\ (PatternStr = P_named
               => out = regexp_extract_fn(<<args[1], Utf8(Some(P_digits)), args[3]>>))

C3_Witness ==
    /\ Called /\ Matches
    /\ PatternStr = P_mixed
    /\ InputStr = <<"a", "b">>
    /\ Index = 2
    /\ Participates(2)
    /\ out = StrOk(<<"b">>)

\* C4: three non-null arguments and a pattern that compiles and matches
\* nowhere in the input give Ok(""), for every index.
C4_NoMatchEmpty ==
    (Called /\ Compiles /\ Found = None) => out = StrOk(EmptyStr)

C4_Witness ==
    /\ Called /\ Compiles
    /\ InputStr = S_abc /\ PatternStr = P_digits /\ Index = 1
    /\ Found = None
    /\ out = StrOk(EmptyStr)

\* C5: three non-null arguments, a pattern that matches and an index above
\* the highest group number of the pattern give Ok(""): no error, no null.
C5_OutOfRangeEmpty ==
    (Called /\ Matches /\ Index > GroupCount) => out = StrOk(EmptyStr)

C5_Witness ==
    /\ Called /\ Matches
    /\ InputStr = S_abc123 /\ PatternStr = P_digits /\ Index = 5
    /\ GroupCount = 1
    /\ out = StrOk(EmptyStr)

\* C6: three non-null arguments, a pattern that matches and an index k >= 1
\* in range whose group took no part in the leftmost match give Ok(""); such
\* a group still counts, so a later group that took part keeps its number.
C6_NonParticipatingEmpty ==
    /\ (Called /\ Matches /\ Index \in 1..GroupCount /\ ~Participates(Index))
           => out = StrOk(EmptyStr)
    /\ (Called /\ Matches /\ Index \in 1..GroupCount /\ Participates(Index)
            /\ \E j \in 1..(Index - 1) : ~Participates(j))
           => out = StrOk(SlotText(Index))
    /\ (Called /\ args = T_alt) => out = StrOk(<<"b">>)

C6_Witness ==
    /\ Called /\ Matches
    /\ PatternStr = P_opt /\ InputStr = <<"1", "b">> /\ Index = 1
    /\ GroupCount = 2
    /\ ~Participates(1) /\ Participates(2)
    /\ SlotText(0) = <<"b">>
    /\ out = StrOk(EmptyStr)

\* C7: an argument slice whose length is not 3 gives the Internal error
\* "regexp_extract expects exactly 3 arguments", whatever it holds.
C7_ArityError ==
    (Called /\ Len(args) # 3) =>
        out = Err("Internal", <<"regexp_extract expects exactly 3 arguments">>)

C7_Witness ==
    /\ Called
    /\ Len(args) = 4
    /\ args[1] = Utf8(None)
    /\ args[2] = Utf8(Some(P_open))
    /\ out.tag = "Err" /\ out.kind = "Internal"

\* C8: a call returns an error exactly when the slice has not 3 elements
\* (Internal) or all three are non-null and the pattern does not compile
\* (Execution); every other call returns Ok, and Ok of a non-null string
\* when all three are non-null and the pattern compiles.
C8_OnlyTwoErrors ==
    Called =>
        /\ out.tag \in {"Ok", "Err"}
        /\ out.tag = "Err" <=> (~IsTriple \/ (AllPresent /\ ~Compiled.ok))
        /\ out.tag = "Err" => out.kind = (IF IsTriple THEN "Execution" ELSE "Internal")
        /\ Compiles => (out.tag = "Ok" /\ out.value.type = "Utf8"
                           /\ out.value.val # None)

C8_Witness ==
    /\ Called /\ AllPresent
    /\ PatternStr = P_noname
    /\ out.tag = "Err" /\ out.kind = "Execution"

\* C10: three non-null arguments, a pattern that compiles and a negative
\* index give Ok("") whether or not the pattern matches: the cast to usize
\* is the index modulo 2^64, a number above every group number.
C10_NegativeIndexEmpty ==
    (Called /\ Compiles /\ Index < 0) =>
        /\ out = StrOk(EmptyStr)
        /\ \A k \in 1..UsizeLimbs :
               AsUsize(Index)[k] + AsUsize(0 - (Index + 1))[k] = LimbBase - 1
        /\ ~UsizeLess(AsUsize(Index), GroupCount + 1)

C10_Witness ==
    /\ Called /\ Matches
    /\ Index = 0 - 1
    /\ PatternStr = P_digits /\ InputStr = S_abc123
    /\ SlotText(0) = <<"1", "2", "3">>
    /\ out = StrOk(EmptyStr)

----------------------------------------------------------------------------
(* The concurrent callers of SpecConc. *)

\* C9: whatever calls ran before or run alongside, the outcome of a call
\* is a function of its own argument slice: two calls with the same
\* arguments have the same outcome, errors included.
C9_Deterministic ==
    /\ \A r1, r2 \in returned : r1[1] = r2[1] => r1[2] = r2[2]
    /\ \A w \in Workers : wpc[w] = "return" =>
           /\ \A r \in returned : r[1] = wargs[w] => r[2] = wout[w]
           /\ \A v \in Workers :
                  (wpc[v] = "return" /\ wargs[v] = wargs[w]) => wout[v] = wout[w]
           /\ wout[w] = regexp_extract_fn(wargs[w])

C9_Witness ==
    /\ \E w, v \in Workers :
           /\ w # v
           /\ wpc[w] = "return" /\ wargs[w] = T_alt /\ wout[w] = StrOk(<<"b">>)
           /\ wpc[v] = "match" /\ wargs[v] = T_basic
    /\ \E r \in returned : r[1] = T_alt
    /\ \E r \in returned : r[2].tag = "Err"

====
